---- MODULE Spec2Model ----
(***************************************************************************)
(* Model of package udp (go-udp-testing): a UDP listener is opened, the    *)
(* caller's action runs, the datagrams that arrive before an idle timeout  *)
(* are concatenated, the socket is closed and the capture is compared      *)
(* with the expected strings.                                              *)
(*                                                                         *)
(* A Go string / []byte is a sequence of one-character strings.  Time is   *)
(* counted in ticks of one millisecond.                                    *)
(***************************************************************************)
EXTENDS Integers, Sequences, FiniteSets, TLC

\* ------------------------------------------------------------------ bounds
\* longest sequence of datagrams the action sends synchronously
MaxSends == 2
\* most strings handed to one list assertion, over both of its lists
MaxList == 2
\* datagrams that concurrent senders deliver during one drain
MaxLate == 1
\* largest Timeout (in ticks) the caller configures
MaxTimeout == 2

\* --------------------------------------------------------------- constants
\* capacity of the read buffer: make([]byte, 1024*32)
BufCap == 32768

\* ----------------------------------------------------------------- strings
empty == <<>>
fo == <<"f", "o">>
o == <<"o">>
foo == <<"f", "o", "o">>
of == <<"o", "f">>
\* a datagram one byte shorter than the read buffer
Big == [i \in 1..(BufCap - 1) |-> "z"]

\* expected strings of the single-string assertions
Strs == {empty, foo, of}
\* datagrams the action and concurrent senders send
Datagrams == {empty, fo, o}

RECURSIVE SeqsUpTo(_, _)
SeqsUpTo(S, n) ==
    IF n = 0 THEN {<<>>}
    ELSE LET shorter == SeqsUpTo(S, n - 1)
         IN  shorter \cup {Append(s, x) : s \in {t \in shorter : Len(t) = n - 1}, x \in S}

\* lists of the list assertions: up to MaxList distinct strings
Lists == {l \in SeqsUpTo(Strs, MaxList) : \A i, j \in 1..Len(l) : l[i] = l[j] => i = j}
\* the two lists of ShouldReceiveAllAndNotReceiveAny
ListPairs == {p \in Lists \X Lists : Len(p[1]) + Len(p[2]) <= MaxList}
\* what one run of the action sends before it returns
Bodies == SeqsUpTo(Datagrams, MaxSends)
\* sends that overrun the read buffer; they are tried on the raw capture
BigBodies == {<<Big, fo, o>>}
BodiesOf(c) == IF c.name = "ReceiveString" THEN Bodies \cup BigBodies ELSE Bodies
\* what a sender running beside the collector sends
LateDatagrams == {o}
\* time the action sleeps before it returns: none, or longer than any Timeout
Sleeps == {0, MaxTimeout + 1}

\* addresses handed to SetAddr: one that resolves, one that does not
GoodAddr == ":8126"
BadAddr == "nohost:xx"
NoAddr == "nil"
Addrs == {GoodAddr, BadAddr}

\* a read that copies the whole datagram whatever room is left
WholeDatagram(a, b) == a

\* ------------------------------------------------------------ Go functions
Min(a, b) == IF a < b THEN a ELSE b

\* strings.Contains(s, substr)
Contains(s, substr) ==
    \E i \in 0..(Len(s) - Len(substr)) :
        \A j \in 1..Len(substr) : s[i + j] = substr[j]

RECURSIVE Concat(_)
Concat(ds) == IF ds = <<>> THEN <<>> ELSE Head(ds) \o Concat(Tail(ds))

\* fmt.Sprintf(format, a...): the text is kept as the format with its operands
Sprintf(format, operands) == <<format, operands>>

\* errorF hands its variadic args to Sprintf as ONE operand (args, not args...)
errorF(log, format, args) == Append(log, Sprintf(format, <<args>>))

resetLogBuf == <<>>

\* printLocation: runtime.Caller(2) is the caller of the assertion
printLocation(log) == errorF(log, "At: %s:%d", <<"file", "line">>)

\* strings.Join(logBuf, "\n"): the report is the list of lines
Join(log) == log

\* what emitLog hands to t.Error, as a sequence of reports
emitLogReports(log) ==
    IF Len(log) > 0 THEN <<[prim |-> "Error", text |-> Join(log)]>> ELSE <<>>

\* log after emitLog: cleared when it held anything
emitLogBuf(log) == IF Len(log) > 0 THEN resetLogBuf ELSE log

\* get: the capture with its equality and containment verdicts
get(msg, match) ==
    [got |-> msg, equals |-> (msg = match), contains |-> Contains(msg, match)]

\* ------------------------------------------------- bodies of the assertions
\* each takes logBuf as left by getMessage and returns logBuf before emitLog
ShouldReceiveOnlyCheck(log, expected, msg) ==
    LET r == get(msg, expected)
    IN  IF ~r.equals
        THEN errorF(errorF(printLocation(log), "Expected: %#v", <<expected>>),
                    "But got: %#v", <<r.got>>)
        ELSE log

ShouldNotReceiveOnlyCheck(log, notExpected, msg) ==
    LET r == get(msg, notExpected)
    IN  IF r.equals
        THEN errorF(printLocation(log), "Expected not to get: %#v", <<notExpected>>)
        ELSE log

ShouldReceiveCheck(log, expected, msg) ==
    LET r == get(msg, expected)
    IN  IF ~r.contains
        THEN errorF(errorF(printLocation(log), "Expected: %#v", <<expected>>),
                    "But got: %#v", <<r.got>>)
        ELSE log

ShouldNotReceiveCheck(log, expected, msg) ==
    LET r == get(msg, expected)
    IN  IF r.contains
        THEN errorF(errorF(printLocation(log), "Expected not to find: %#v", <<expected>>),
                    "But got: %#v", <<r.got>>)
        ELSE log

ShouldReceiveNothingCheck(log, msg) ==
    LET r == get(msg, empty)
    IN  IF Len(r.got) > 0
        THEN errorF(printLocation(log), "Expected no data, but got: %#v", <<r.got>>)
        ELSE log

\* a loop that records the location at every missing string
RECURSIVE locationEachLoop(_, _, _, _)
locationEachLoop(log, failed, list, msg) ==
    IF list = <<>> THEN [log |-> log, failed |-> failed]
    ELSE LET str == Head(list)
         IN  IF ~Contains(msg, str)
             THEN locationEachLoop(errorF(printLocation(log), "Expected to find: %#v", <<str>>),
                                   TRUE, Tail(list), msg)
             ELSE locationEachLoop(log, failed, Tail(list), msg)

\* for _, str := range expected { if !strings.Contains(got, str) {...} }
RECURSIVE expectedLoop(_, _, _, _)
expectedLoop(log, failed, list, msg) ==
    IF list = <<>> THEN [log |-> log, failed |-> failed]
    ELSE LET str == Head(list)
         IN  IF ~Contains(msg, str)
             THEN expectedLoop(errorF(IF ~failed THEN printLocation(log) ELSE log,
                                      "Expected to find: %#v", <<str>>),
                               TRUE, Tail(list), msg)
             ELSE expectedLoop(log, failed, Tail(list), msg)

\* for _, str := range unexpected { if strings.Contains(got, str) {...} }
RECURSIVE unexpectedLoop(_, _, _, _)
unexpectedLoop(log, failed, list, msg) ==
    IF list = <<>> THEN [log |-> log, failed |-> failed]
    ELSE LET str == Head(list)
         IN  IF Contains(msg, str)
             THEN unexpectedLoop(errorF(IF ~failed THEN printLocation(log) ELSE log,
                                        "Expected not to find: %#v", <<str>>),
                                 TRUE, Tail(list), msg)
             ELSE unexpectedLoop(log, failed, Tail(list), msg)

ShouldReceiveAllCheck(log, expected, msg) ==
    LET r == expectedLoop(log, FALSE, expected, msg)
    IN  IF r.failed THEN errorF(r.log, "But got: %#v", <<msg>>) ELSE r.log

ShouldNotReceiveAnyCheck(log, unexpected, msg) ==
    LET r == unexpectedLoop(log, FALSE, unexpected, msg)
    IN  IF r.failed THEN errorF(r.log, "But got: %#v", <<msg>>) ELSE r.log

\* a variant that skips the unexpected list once an expected string is missing
ShortCircuitCheck(log, expected, unexpected, msg) ==
    LET r1 == expectedLoop(log, FALSE, expected, msg)
        r2 == IF r1.failed THEN r1 ELSE unexpectedLoop(r1.log, r1.failed, unexpected, msg)
    IN  IF r2.failed THEN errorF(r2.log, "but got: %#v", <<msg>>) ELSE r2.log

ShouldReceiveAllAndNotReceiveAnyCheck(log, expected, unexpected, msg) ==
    LET r1 == expectedLoop(log, FALSE, expected, msg)
        r2 == unexpectedLoop(r1.log, r1.failed, unexpected, msg)
    IN  IF r2.failed THEN errorF(r2.log, "but got: %#v", <<msg>>) ELSE r2.log

\* ReceiveString returns the capture and touches nothing else
ReceiveStringCheck(log, msg) == log

\* the public functions that begin with `defer emitLog(t)`
DefersEmitLog(name) == name # "ReceiveString"

\* the part of a public function that follows its capture
AfterCapture(c, log, msg) ==
    CASE c.name = "ShouldReceiveOnly" -> ShouldReceiveOnlyCheck(log, c.match, msg)
      [] c.name = "ShouldNotReceiveOnly" -> ShouldNotReceiveOnlyCheck(log, c.match, msg)
      [] c.name = "ShouldReceive" -> ShouldReceiveCheck(log, c.match, msg)
      [] c.name = "ShouldNotReceive" -> ShouldNotReceiveCheck(log, c.match, msg)
      [] c.name = "ShouldReceiveNothing" -> ShouldReceiveNothingCheck(log, msg)
      [] c.name = "ShouldReceiveAll" -> ShouldReceiveAllCheck(log, c.expected, msg)
      [] c.name = "ShouldNotReceiveAny" -> ShouldNotReceiveAnyCheck(log, c.unexpected, msg)
      [] c.name = "ShouldReceiveAllAndNotReceiveAny" ->
             ShouldReceiveAllAndNotReceiveAnyCheck(log, c.expected, c.unexpected, msg)
      [] c.name = "ReceiveString" -> ReceiveStringCheck(log, msg)

\* a stop that returns without closing the socket
stopLeavesOpen(l) == [listener |-> l, closed |-> 0, err |-> FALSE]

\* listener.Close(): closes an open socket, fails on a nil or closed one
stop(l) ==
    [listener |-> IF l = "open" THEN "closed" ELSE l,
     closed |-> IF l = "open" THEN 1 ELSE 0,
     err |-> l # "open"]

\* net.ResolveUDPAddr succeeds on a well-formed host:port
Resolves(a) == a = GoodAddr

\* ------------------------------------------------------------------- state
VARIABLES
    addr,       \* var addr *string
    Timeout,    \* var Timeout time.Duration, in ticks
    listener,   \* var listener *net.UDPConn: "nil", "open" or "closed"
    logBuf,     \* var logBuf []string
    nOpen,      \* sockets this process holds open on the listen address
    rcvq,       \* datagrams queued in the open socket, oldest first
    pc,         \* where the test stands: idle (between calls), body, read (in
                \* getMessage), done (the call has returned), panicked
    call,       \* the public function running and its arguments
    message,    \* getMessage: the written part of message, message[0:bufLen]
    bufLen,     \* getMessage: bufLen
    idle,       \* ticks since the read deadline was last set
    reports,    \* what the reporter t has been handed during this call
    sent,       \* datagrams the action sent before it returned
    nLate,      \* datagrams concurrent senders delivered during this drain
    bodyRuns,   \* times the action was invoked during this call
    cycles,     \* capture cycles (drains) begun during this call
    got,        \* the value getMessage returned to this call
    readErr,    \* the drain of this call ended on a read error (deadline hit)
    log0,       \* logBuf as this call found it
    outcome,    \* how the call ended: none, returned, fatal, panic
    slept,      \* ticks the action spent sleeping before it returned
    reads,      \* ReadFrom attempts made during this drain
    elapsed,    \* ticks since the drain began
    late,       \* the datagrams concurrent senders delivered during this drain
    missed      \* datagrams that reached the port after this call's socket closed

vars == <<addr, Timeout, listener, logBuf, nOpen, rcvq, pc, call, message, bufLen,
          idle, reports, sent, nLate, bodyRuns, cycles, got, readErr, log0, outcome,
          slept, reads, elapsed, late, missed>>

NoCall == [name |-> "none", match |-> <<>>, expected |-> <<>>, unexpected |-> <<>>,
           expectData |-> FALSE]

Init ==
    /\ addr = NoAddr
    /\ Timeout = 1
    /\ listener = "nil"
    /\ logBuf = <<>>
    /\ nOpen = 0
    /\ rcvq = <<>>
    /\ pc = "idle"
    /\ call = NoCall
    /\ message = <<>>
    /\ bufLen = 0
    /\ idle = 0
    /\ reports = <<>>
    /\ sent = <<>>
    /\ nLate = 0
    /\ bodyRuns = 0
    /\ cycles = 0
    /\ got = <<>>
    /\ readErr = FALSE
    /\ log0 = <<>>
    /\ outcome = "none"
    /\ slept = 0
    /\ reads = 0
    /\ elapsed = 0
    /\ late = <<>>
    /\ missed = 0

\* ----------------------------------------------------------- configuration
SetAddr(a) ==
    /\ pc = "idle"
    /\ addr' = a
    /\ UNCHANGED <<Timeout, listener, logBuf, nOpen, rcvq, pc, call, message, bufLen,
                   idle, reports, sent, nLate, bodyRuns, cycles, got, readErr, log0,
                   outcome, slept, reads, elapsed, late, missed>>

\* the caller assigns the exported variable Timeout between calls
SetTimeout(d) ==
    /\ pc = "idle"
    /\ Timeout' = d
    /\ UNCHANGED <<addr, listener, logBuf, nOpen, rcvq, pc, call, message, bufLen,
                   idle, reports, sent, nLate, bodyRuns, cycles, got, readErr, log0,
                   outcome, slept, reads, elapsed, late, missed>>

\* ------------------------------------------------------------ call entry
\* a t.Fatal after which the call carries on with the action
FatalReturns(c, how, report) ==
    /\ reports' = report
    /\ logBuf' = logBuf
    /\ outcome' = how
    /\ pc' = "body"
    /\ UNCHANGED <<rcvq, nOpen>>

\* t.Fatal ends the test goroutine; the deferred emitLog of the public
\* function still runs, stop does not (it is deferred after start returns)
Abort(c, how, report) ==
    /\ reports' = report \o (IF DefersEmitLog(c.name) THEN emitLogReports(logBuf) ELSE <<>>)
    /\ logBuf' = IF DefersEmitLog(c.name) THEN emitLogBuf(logBuf) ELSE logBuf
    /\ outcome' = how
    /\ pc' = IF how = "panic" THEN "panicked" ELSE "done"
    /\ UNCHANGED <<rcvq, nOpen>>

\* a public function up to the end of start(t); inUse: another process holds
\* the port
Enter(c, inUse) ==
    /\ pc = "idle"
    /\ call' = c
    /\ log0' = logBuf
    /\ sent' = <<>>
    /\ nLate' = 0
    /\ bodyRuns' = 0
    /\ cycles' = 0
    /\ got' = <<>>
    /\ readErr' = FALSE
    /\ message' = <<>>
    /\ bufLen' = 0
    /\ idle' = 0
    /\ slept' = 0
    /\ reads' = 0
    /\ elapsed' = 0
    /\ late' = <<>>
    /\ missed' = 0
    /\ UNCHANGED <<addr, Timeout>>
    /\ IF addr = NoAddr
       THEN \* *addr dereferences a nil pointer
            /\ Abort(c, "panic", <<>>)
            /\ UNCHANGED listener
       ELSE IF ~Resolves(addr)
       THEN /\ Abort(c, "fatal", <<[prim |-> "Fatal", text |-> "resolve"]>>)
            /\ UNCHANGED listener
       ELSE IF inUse \/ nOpen > 0
       THEN /\ Abort(c, "fatal", <<[prim |-> "Fatal", text |-> "listen"]>>)
            /\ listener' = "nil"
       ELSE /\ listener' = "open"
            /\ nOpen' = nOpen + 1
            /\ rcvq' = <<>>
            /\ reports' = <<>>
            /\ outcome' = "none"
            /\ pc' = "body"
            /\ UNCHANGED logBuf

ShouldReceiveOnly(expected, inUse) ==
    /\ pc = "idle"
    /\ Enter([name |-> "ShouldReceiveOnly", match |-> expected, expected |-> <<>>,
              unexpected |-> <<>>, expectData |-> TRUE], inUse)

ShouldNotReceiveOnly(notExpected, inUse) ==
    /\ pc = "idle"
    /\ Enter([name |-> "ShouldNotReceiveOnly", match |-> notExpected, expected |-> <<>>,
              unexpected |-> <<>>, expectData |-> FALSE], inUse)

ShouldReceive(expected, inUse) ==
    /\ pc = "idle"
    /\ Enter([name |-> "ShouldReceive", match |-> expected, expected |-> <<>>,
              unexpected |-> <<>>, expectData |-> FALSE], inUse)

ShouldNotReceive(expected, inUse) ==
    /\ pc = "idle"
    /\ Enter([name |-> "ShouldNotReceive", match |-> expected, expected |-> <<>>,
              unexpected |-> <<>>, expectData |-> FALSE], inUse)

ShouldReceiveNothing(inUse) ==
    /\ pc = "idle"
    /\ Enter([name |-> "ShouldReceiveNothing", match |-> empty, expected |-> <<>>,
              unexpected |-> <<>>, expectData |-> FALSE], inUse)

ShouldReceiveAll(expected, inUse) ==
    /\ pc = "idle"
    /\ Enter([name |-> "ShouldReceiveAll", match |-> <<>>, expected |-> expected,
              unexpected |-> <<>>, expectData |-> TRUE], inUse)

ShouldNotReceiveAny(unexpected, inUse) ==
    /\ pc = "idle"
    /\ Enter([name |-> "ShouldNotReceiveAny", match |-> <<>>, expected |-> <<>>,
              unexpected |-> unexpected, expectData |-> FALSE], inUse)

ShouldReceiveAllAndNotReceiveAny(expected, unexpected, inUse) ==
    /\ pc = "idle"
    /\ Enter([name |-> "ShouldReceiveAllAndNotReceiveAny", match |-> <<>>,
              expected |-> expected, unexpected |-> unexpected, expectData |-> TRUE], inUse)

\* logBuf only grows through ReceiveString; the guard keeps it finite
ReceiveString(inUse) ==
    /\ logBuf = <<>>
    /\ Enter([name |-> "ReceiveString", match |-> <<>>, expected |-> <<>>,
              unexpected |-> <<>>, expectData |-> TRUE], inUse)

\* ------------------------------------------------------------- getMessage
\* a loop that sets the read deadline once, before the action runs
deadlineBeforeBody(sl) == sl

\* the first SetReadDeadline follows body(): whatever time the action took, a
\* full Timeout lies ahead of the first read
deadlineAfterBody(sl) == 0

\* body() followed by make([]byte, 1024*32) and the first SetReadDeadline;
\* what the action sends on the loopback is queued in the socket at once; sl
\* is the time the action sleeps between its sends
Body(ds, sl) ==
    /\ pc = "body"
    /\ ds \in BodiesOf(call)
    /\ slept' = sl
    /\ reads' = 0
    /\ elapsed' = 0
    /\ rcvq' = rcvq \o ds
    /\ sent' = ds
    /\ bodyRuns' = bodyRuns + 1
    /\ cycles' = cycles + 1
    /\ message' = <<>>
    /\ bufLen' = 0
    /\ idle' = deadlineAfterBody(sl)
    /\ pc' = "read"
    /\ UNCHANGED <<addr, Timeout, listener, logBuf, nOpen, call, reports, nLate, got,
                   readErr, log0, outcome, late, missed>>

\* a sender running beside the collector delivers a datagram to the open socket
\* before the deadline; the loop reads queued datagrams without delay, so the
\* datagram finds the queue empty
LateArrive(d) ==
    /\ pc = "read"
    /\ nLate < MaxLate
    /\ rcvq = <<>>
    /\ idle < Timeout
    /\ rcvq' = Append(rcvq, d)
    /\ nLate' = nLate + 1
    /\ late' = Append(late, d)
    /\ UNCHANGED <<addr, Timeout, listener, logBuf, nOpen, pc, call, message, bufLen,
                   idle, reports, sent, bodyRuns, cycles, got, readErr, log0, outcome,
                   slept, reads, elapsed, missed>>

\* a sender running beside the collector sends a datagram that reaches the port
\* after the call has returned; the port queues it only if a socket is still
\* bound there
LateMiss(d) ==
    /\ pc = "done"
    /\ outcome = "returned"
    /\ nLate + missed < MaxLate
    /\ missed' = missed + 1
    /\ rcvq' = IF nOpen > 0 THEN Append(rcvq, d) ELSE rcvq
    /\ UNCHANGED <<addr, Timeout, listener, logBuf, nOpen, pc, call, message, bufLen,
                   idle, reports, sent, nLate, bodyRuns, cycles, got, readErr, log0,
                   outcome, slept, reads, elapsed, late>>

\* a millisecond passes while ReadFrom blocks on the empty socket
Tick ==
    /\ pc = "read"
    /\ rcvq = <<>>
    /\ idle < Timeout
    /\ idle' = idle + 1
    /\ elapsed' = elapsed + 1
    /\ UNCHANGED <<addr, Timeout, listener, logBuf, nOpen, rcvq, pc, call, message,
                   bufLen, reports, sent, nLate, bodyRuns, cycles, got, readErr, log0,
                   outcome, slept, reads, late, missed>>

\* if n == 0 { if err != nil && bufLen == 0 && expectData { errorF(...) } }
zeroRead(log, err, len, expectData) ==
    IF err /\ len = 0 /\ expectData
    THEN errorF(log, "Error reading udp data: %v", <<"i/o timeout">>)
    ELSE log

\* from `break` to the return of the public function: the capture is cut out of
\* the buffer, the deferred stop closes the socket, the assertion is evaluated
\* and the deferred emitLog reports
Return(log1, err) ==
    LET msg == SubSeq(message, 1, bufLen)
        st == stop(listener)
        log2 == IF st.err THEN log1 ELSE AfterCapture(call, log1, msg)
        fatal == IF st.err THEN <<[prim |-> "Fatal", text |-> "close"]>> ELSE <<>>
    IN  /\ listener' = st.listener
        /\ nOpen' = nOpen - st.closed
        /\ rcvq' = IF st.closed = 1 THEN <<>> ELSE rcvq
        /\ reports' = reports \o fatal
                      \o (IF DefersEmitLog(call.name) THEN emitLogReports(log2) ELSE <<>>)
        /\ logBuf' = IF DefersEmitLog(call.name) THEN emitLogBuf(log2) ELSE log2
        /\ got' = msg
        /\ readErr' = err
        /\ outcome' = IF st.err THEN "fatal" ELSE "returned"
        /\ message' = <<>>
        /\ bufLen' = 0
        /\ idle' = 0
        /\ pc' = "done"
        /\ reads' = reads + 1
        /\ UNCHANGED <<addr, Timeout, call, sent, nLate, bodyRuns, cycles, log0, slept,
                       elapsed, late, missed>>

\* a loop that leaves the deadline of the previous turn in force
keepDeadline(i) == i

\* listener.SetReadDeadline(time.Now().Add(Timeout)) at the top of the next
\* turn: the time already waited no longer counts
renewDeadline(i) == 0

\* one turn of the loop with a datagram waiting: ReadFrom(message[bufLen:])
\* copies what fits and drops the rest of the datagram
ReadFrom ==
    /\ pc = "read"
    /\ rcvq # <<>>
    /\ idle < Timeout
    /\ LET d == Head(rcvq)
           n == Min(Len(d), BufCap - bufLen)
       IN  IF n = 0
           THEN Return(zeroRead(logBuf, FALSE, bufLen, call.expectData), FALSE)
           ELSE /\ message' = message \o SubSeq(d, 1, n)
                /\ bufLen' = bufLen + n
                /\ rcvq' = Tail(rcvq)
                /\ idle' = renewDeadline(idle)
                /\ reads' = reads + 1
                /\ UNCHANGED <<addr, Timeout, listener, logBuf, nOpen, pc, call, reports,
                               sent, nLate, bodyRuns, cycles, got, readErr, log0, outcome,
                               slept, elapsed, late, missed>>

\* one turn of the loop in which the deadline passes before anything is read
ReadTimeout ==
    /\ pc = "read"
    /\ idle >= Timeout
    /\ Return(zeroRead(logBuf, TRUE, bufLen, call.expectData), TRUE)

\* the test goes on to its next statement; what the finished call left in the
\* bookkeeping variables is dropped, the package variables stay
Continue ==
    /\ pc = "done"
    /\ pc' = "idle"
    /\ call' = NoCall
    /\ reports' = <<>>
    /\ sent' = <<>>
    /\ nLate' = 0
    /\ bodyRuns' = 0
    /\ cycles' = 0
    /\ got' = <<>>
    /\ readErr' = FALSE
    /\ log0' = <<>>
    /\ outcome' = "none"
    /\ slept' = 0
    /\ reads' = 0
    /\ elapsed' = 0
    /\ late' = <<>>
    /\ missed' = 0
    /\ UNCHANGED <<addr, Timeout, listener, logBuf, nOpen, rcvq, message, bufLen, idle>>

\* ----------------------------------------------------------- specification
Next ==
    \/ \E a \in Addrs : SetAddr(a)
    \/ \E d \in 1..MaxTimeout : SetTimeout(d)
    \/ \E s \in Strs, u \in BOOLEAN : ShouldReceiveOnly(s, u)
    \/ \E s \in Strs, u \in BOOLEAN : ShouldNotReceiveOnly(s, u)
    \/ \E s \in Strs, u \in BOOLEAN : ShouldReceive(s, u)
    \/ \E s \in Strs, u \in BOOLEAN : ShouldNotReceive(s, u)
    \/ \E u \in BOOLEAN : ShouldReceiveNothing(u)
    \/ \E l \in Lists, u \in BOOLEAN : ShouldReceiveAll(l, u)
    \/ \E l \in Lists, u \in BOOLEAN : ShouldNotReceiveAny(l, u)
    \/ \E p \in ListPairs, u \in BOOLEAN : ShouldReceiveAllAndNotReceiveAny(p[1], p[2], u)
    \/ \E u \in BOOLEAN : ReceiveString(u)
    \/ \E ds \in Bodies \cup BigBodies, sl \in Sleeps : Body(ds, sl)
    \/ \E d \in LateDatagrams : LateArrive(d)
    \/ \E d \in LateDatagrams : LateMiss(d)
    \/ Tick
    \/ ReadFrom
    \/ ReadTimeout
    \/ Continue

Spec == Init /\ [][Next]_vars

\* ------------------------------------------------------------------ claims
\* the call has returned to the test after a complete capture cycle
Returned(name) == pc = "done" /\ outcome = "returned" /\ call.name = name
\* the reporter was handed nothing during the call
Passed == reports = <<>>
\* the lines of the report handed to t.Error that were made with `format`
LinesWith(format) ==
    IF reports = <<>> THEN 0
    ELSE Cardinality({i \in 1..Len(reports[1].text) : reports[1].text[i][1] = format})
\* what a public function would hand the reporter on a capture that ended as
\* this one did, starting from the log this call found
WouldPass(c) ==
    emitLogReports(AfterCapture(c, zeroRead(log0, readErr, Len(got), c.expectData), got)) = <<>>

\* C1: ShouldReceiveOnly(t, s, action) passes if and only if the bytes the action
\* sends, concatenated, equal s (no concurrent sender, socket bound).
C1_ReceiveOnlyIffSentEquals ==
    (Returned("ShouldReceiveOnly") /\ nLate = 0) =>
        (Passed <=> Concat(sent) = call.match)

\* C2: logBuf is empty whenever a public function, ReceiveString included, has
\* returned.
C2_LogEmptyOnReturn == pc = "done" => logBuf = <<>>

\* C3: getMessage returns the concatenation, in order, of the datagrams the
\* action sent before it returned (no concurrent sender).
C3_CaptureIsConcatenation ==
    (pc = "done" /\ outcome = "returned" /\ nLate = 0) => got = Concat(sent)

\* C4: ShouldReceiveAll passes if and only if every string of the list is a
\* substring of the capture.
C4_ReceiveAllIffAllContained ==
    Returned("ShouldReceiveAll") =>
        (Passed <=> \A i \in 1..Len(call.expected) : Contains(got, call.expected[i]))

\* C5: ShouldReceiveAllAndNotReceiveAny runs the action once and drains once; it
\* passes exactly when ShouldReceiveAll(expected) and ShouldNotReceiveAny(unexpected)
\* would both pass on the same capture; and it reports one line for every missing
\* expected string and one for every unexpected string found, whatever came before.
C5_ConjunctionOfBothChecks ==
    Returned("ShouldReceiveAllAndNotReceiveAny") =>
        /\ bodyRuns = 1
        /\ cycles = 1
        /\ Passed <=>
               /\ WouldPass([call EXCEPT !.name = "ShouldReceiveAll", !.expectData = TRUE])
               /\ WouldPass([call EXCEPT !.name = "ShouldNotReceiveAny", !.expectData = FALSE])
        /\ LinesWith("Expected to find: %#v") =
               Cardinality({i \in 1..Len(call.expected) : ~Contains(got, call.expected[i])})
        /\ LinesWith("Expected not to find: %#v") =
               Cardinality({i \in 1..Len(call.unexpected) : Contains(got, call.unexpected[i])})

\* C5 witness: a call in which an expected string is missing and an unexpected
\* one is present
C5_Witness ==
    /\ Returned("ShouldReceiveAllAndNotReceiveAny")
    /\ bodyRuns = 1
    /\ \E i \in 1..Len(call.expected) : ~Contains(got, call.expected[i])
    /\ \E i \in 1..Len(call.unexpected) : Contains(got, call.unexpected[i])
    /\ LinesWith("Expected not to find: %#v") = 1

\* C6: ShouldReceive passes if and only if expected is a substring of the capture.
C6_ReceiveIffContained ==
    Returned("ShouldReceive") => (Passed <=> Contains(got, call.match))

\* C7: ShouldNotReceiveOnly fails if and only if the capture equals x, and
\* ShouldNotReceive fails if and only if x is a substring of the capture.
C7_NegativeFailIffPositiveHolds ==
    /\ Returned("ShouldNotReceiveOnly") => (~Passed <=> got = call.match)
    /\ Returned("ShouldNotReceive") => (~Passed <=> Contains(got, call.match))

\* C8: ShouldNotReceiveAny fails if and only if some string of the list is a
\* substring of the capture.
C8_NotReceiveAnyFailsIffSomeContained ==
    Returned("ShouldNotReceiveAny") =>
        (~Passed <=> \E i \in 1..Len(call.unexpected) : Contains(got, call.unexpected[i]))

\* C9: ShouldReceiveNothing passes if and only if zero bytes were captured.
C9_ReceiveNothingIffEmpty ==
    Returned("ShouldReceiveNothing") => (Passed <=> Len(got) = 0)

\* C10: at most one socket is open at any time, it is the one listener names,
\* and none is open once a call has returned or between calls.
C10_SocketClosedOnReturn ==
    /\ nOpen <= 1
    /\ nOpen = 1 => listener = "open"
    /\ pc \in {"idle", "done", "panicked"} => nOpen = 0

\* C10 witness: a call that bound the socket, recorded a failure and returned
\* with the socket closed
C10_Witness ==
    /\ pc = "done"
    /\ outcome = "returned"
    /\ bodyRuns = 1
    /\ ~Passed
    /\ listener = "closed"
    /\ nOpen = 0

\* what each assertion is meant to decide about a capture
Holds(c, msg) ==
    CASE c.name = "ShouldReceiveOnly" -> msg = c.match
      [] c.name = "ShouldNotReceiveOnly" -> msg # c.match
      [] c.name = "ShouldReceive" -> Contains(msg, c.match)
      [] c.name = "ShouldNotReceive" -> ~Contains(msg, c.match)
      [] c.name = "ShouldReceiveNothing" -> Len(msg) = 0
      [] c.name = "ShouldReceiveAll" ->
             \A i \in 1..Len(c.expected) : Contains(msg, c.expected[i])
      [] c.name = "ShouldNotReceiveAny" ->
             \A i \in 1..Len(c.unexpected) : ~Contains(msg, c.unexpected[i])
      [] c.name = "ShouldReceiveAllAndNotReceiveAny" ->
             /\ \A i \in 1..Len(c.expected) : Contains(msg, c.expected[i])
             /\ \A i \in 1..Len(c.unexpected) : ~Contains(msg, c.unexpected[i])
      [] OTHER -> TRUE

\* A call that found logBuf empty passes exactly when its predicate holds of the
\* capture and the drain did not end on a read error with nothing captured
\* while data was expected.
VerdictOnEmptyLog ==
    (pc = "done" /\ outcome = "returned" /\ DefersEmitLog(call.name) /\ log0 = <<>>) =>
        (Passed <=> (Holds(call, got) /\ ~(call.expectData /\ readErr /\ Len(got) = 0)))

\* The capture is the concatenation of what was sent up to the first empty
\* datagram, cut at the capacity of the buffer (no concurrent sender).
RECURSIVE UpToEmpty(_)
UpToEmpty(ds) ==
    IF ds = <<>> \/ Head(ds) = <<>> THEN <<>> ELSE Head(ds) \o UpToEmpty(Tail(ds))
CaptureUpToEmptyDatagram ==
    (pc = "done" /\ outcome = "returned" /\ nLate = 0) =>
        got = SubSeq(UpToEmpty(sent), 1, Min(Len(UpToEmpty(sent)), BufCap))

\* C11: the action runs once, between the bind and the first read, and all it
\* sends before it returns is captured even when it sleeps longer than Timeout
\* (no concurrent sender).
C11_SleepingActionFullyCaptured ==
    (pc = "done" /\ outcome = "returned" /\ nLate = 0 /\ slept > Timeout) =>
        (bodyRuns = 1 /\ got = Concat(sent))

\* the reports handed to t.Error during the call
ErrorReports == {i \in 1..Len(reports) : reports[i].prim = "Error"}
\* the lines the finished call left: those reported and those still in logBuf
CallLines ==
    (IF ErrorReports = {} THEN <<>> ELSE reports[CHOOSE i \in ErrorReports : TRUE].text)
    \o logBuf
\* the lines recorded during the call, after those it found in logBuf
Recorded == SubSeq(CallLines, Len(log0) + 1, Len(CallLines))

\* C12: an assertion hands the reporter at most one Error report, exactly one
\* with all the lines of the call when the call recorded a line, none when it
\* recorded none.
C12_OneReportPerFailingCall ==
    (pc = "done" /\ outcome = "returned" /\ DefersEmitLog(call.name)) =>
        /\ Cardinality(ErrorReports) <= 1
        /\ Len(Recorded) > 0 => (Cardinality(ErrorReports) = 1 /\ logBuf = <<>>)
        /\ Len(Recorded) = 0 => Cardinality(ErrorReports) = 0

\* the call reported a failure to resolve or bind the address
StartFailed ==
    \E i \in 1..Len(reports) :
        reports[i].prim = "Fatal" /\ reports[i].text \in {"resolve", "listen"}

\* C13: when the address cannot be resolved or bound the call reports Fatal
\* first and ends there: no socket, no action run, no read, no second attempt,
\* no line of an assertion.
C13_StartFailureAborts ==
    StartFailed =>
        /\ pc = "done"
        /\ outcome = "fatal"
        /\ reports[1].prim = "Fatal"
        /\ Cardinality({i \in 1..Len(reports) : reports[i].prim = "Fatal"}) = 1
        /\ nOpen = 0
        /\ bodyRuns = 0
        /\ cycles = 0
        /\ reads = 0
        /\ Recorded = <<>>

\* C13 witness: ShouldReceiveOnly ended by a failed bind
C13_Witness ==
    /\ pc = "done"
    /\ call.name = "ShouldReceiveOnly"
    /\ reports = <<[prim |-> "Fatal", text |-> "listen"]>>
    /\ bodyRuns = 0

\* C14: the deadline is set anew before every read, so a sender that keeps
\* each datagram inside Timeout of the previous read is never cut off: all that
\* reached the socket before a deadline passed, from the action and from such a
\* sender, is in the capture.
C14_PunctualSenderFullyCaptured ==
    (pc = "done" /\ outcome = "returned") => got = Concat(sent \o late)

\* C15: with no datagram at all the drain makes exactly one read, which fails
\* one Timeout after the action returned, and ends with an empty capture; no
\* further wait follows the zero read.
C15_SilentCycleOneRead ==
    (pc = "done" /\ outcome = "returned" /\ sent = <<>> /\ late = <<>>) =>
        /\ reads = 1
        /\ readErr
        /\ elapsed = Timeout
        /\ got = <<>>

\* C15 witness: a silent action that slept longer than Timeout, and the drain
\* still waited the whole Timeout
C15_Witness ==
    /\ pc = "done"
    /\ outcome = "returned"
    /\ sent = <<>>
    /\ late = <<>>
    /\ slept > Timeout
    /\ Timeout = MaxTimeout
    /\ elapsed = MaxTimeout

\* what a drain makes of the datagrams that reached its socket in time
CaptureOf(ds) == SubSeq(UpToEmpty(ds), 1, Min(Len(UpToEmpty(ds)), BufCap))

\* C16: a datagram that arrives after the deadline passed finds the socket
\* closed and is in no capture: a capture is made only of what reached the
\* call's own socket in time, each call starts with an empty socket queue and
\* an empty buffer, and nothing is held over between calls.
C16_LateDatagramInNoCapture ==
    /\ (pc = "done" /\ outcome = "returned") => got = CaptureOf(sent \o late)
    /\ pc \in {"idle", "body", "done"} => (rcvq = <<>> /\ message = <<>> /\ bufLen = 0)

\* C16 witness: a datagram missed the call, which captured what its action sent
C16_Witness ==
    /\ pc = "done"
    /\ outcome = "returned"
    /\ missed > 0
    /\ sent = <<fo, o>>
    /\ got = foo

\* the lines "Error reading udp data" the call recorded
ReadErrorLines ==
    Cardinality({i \in 1..Len(Recorded) : Recorded[i][1] = "Error reading udp data: %v"})

\* C17: a cycle records "Error reading udp data" if and only if it
\* captured zero bytes and expectData is set.
C17_ReadErrorIffEmptyAndExpected ==
    (pc = "done" /\ outcome = "returned") =>
        /\ ReadErrorLines <= 1
        /\ ReadErrorLines = 1 <=> (Len(got) = 0 /\ call.expectData)

\* what the code does instead: the line is recorded if and only if the last
\* read failed on the deadline, zero bytes were captured and expectData is set;
\* a cycle ended by a zero-length datagram records nothing
ReadErrorIffDeadlineOnEmpty ==
    (pc = "done" /\ outcome = "returned") =>
        /\ ReadErrorLines <= 1
        /\ ReadErrorLines = 1 <=> (readErr /\ Len(got) = 0 /\ call.expectData)

\* the line errorF makes of a format and its arguments
Line(format, args) == errorF(<<>>, format, args)[1]
\* one line for every string of the list the capture does not contain
RECURSIVE MissingLines(_, _)
MissingLines(list, msg) ==
    IF list = <<>> THEN <<>>
    ELSE (IF Contains(msg, Head(list)) THEN <<>>
          ELSE <<Line("Expected to find: %#v", <<Head(list)>>)>>)
         \o MissingLines(Tail(list), msg)
\* one line for every string of the list the capture contains
RECURSIVE PresentLines(_, _)
PresentLines(list, msg) ==
    IF list = <<>> THEN <<>>
    ELSE (IF Contains(msg, Head(list))
          THEN <<Line("Expected not to find: %#v", <<Head(list)>>)>> ELSE <<>>)
         \o PresentLines(Tail(list), msg)
\* the lines of the assertion itself, after the line of the collector if any
AssertionLines ==
    IF ReadErrorLines = 1 THEN Tail(Recorded) ELSE Recorded
ListAssertions == {"ShouldReceiveAll", "ShouldNotReceiveAny", "ShouldReceiveAllAndNotReceiveAny"}

\* C18: a list assertion that fails records one location line, then one line
\* per missing expected string and one per present unexpected string in list
\* order, then one last line with the whole capture; one that finds no
\* mismatch records none of these.
C18_ListFailureLines ==
    (pc = "done" /\ outcome = "returned" /\ call.name \in ListAssertions) =>
        LET mismatches == MissingLines(call.expected, got) \o PresentLines(call.unexpected, got)
            last == IF call.name = "ShouldReceiveAllAndNotReceiveAny"
                    THEN "but got: %#v" ELSE "But got: %#v"
        IN  AssertionLines =
                IF mismatches = <<>> THEN <<>>
                ELSE <<Line("At: %s:%d", <<"file", "line">>)>> \o mismatches
                     \o <<Line(last, <<got>>)>>

\* C18 witness: one missing and one unwanted string in one call: four lines
C18_Witness ==
    /\ Returned("ShouldReceiveAllAndNotReceiveAny")
    /\ call.expected = <<of>>
    /\ call.unexpected = <<foo>>
    /\ got = foo
    /\ Len(AssertionLines) = 4

C20_BufLenWithinBuffer ==
    /\ [](/\ bufLen \in 0..BufCap
          /\ Len(message) = bufLen
          /\ Len(got) <= BufCap)
    /\ [][(pc = "read" /\ pc' = "read") =>
              /\ bufLen' >= bufLen
              /\ SubSeq(message', 1, bufLen) = message
              /\ bufLen' > bufLen =>
                    /\ rcvq # <<>>
                    /\ bufLen' - bufLen <= Len(Head(rcvq))
                    /\ SubSeq(message', bufLen + 1, bufLen') =
                           SubSeq(Head(rcvq), 1, bufLen' - bufLen)]_vars

\* C20 witness: the buffer is full and a datagram is still waiting
C20_Witness ==
    /\ pc = "read"
    /\ bufLen = BufCap
    /\ rcvq # <<>>

====
